---- MODULE Spec2Model ----
(***************************************************************************)
(* Model of the two command-line scripts of tonsuu-checker:                *)
(*   scripts/plate_detect.py  (detector only)                              *)
(*   scripts/plate_local.py   (detector + reader)                          *)
(* One behaviour is one process run.  The external libraries (PIL,         *)
(* ultralytics, torch, paddleocr) are the environment: each call either    *)
(* raises or returns a value drawn from a bounded set.  An exception that  *)
(* no handler of the script catches ends the interpreter with a traceback  *)
(* on stderr, nothing more on stdout, and exit status 1.                   *)
(*                                                                         *)
(* Floats: box coordinates are counted in 1/Scale pixel so that int()      *)
(* truncation is a real conversion; confidences are integers on a scale    *)
(* 0..MaxConf.                                                             *)
(***************************************************************************)
EXTENDS Integers, Sequences, FiniteSets, TLC

VARIABLES script, args, pc, stdout, stderr, exitCode, trace, failedStage,
          path_exists, capability, device, predict_device, results,
          result_kind, det, bbox, crop_path, files, use_gpu, ocr_result, text, ocr_conf

vars == <<script, args, pc, stdout, stderr, exitCode, trace, failedStage,
          path_exists, capability, device, predict_device, results,
          result_kind, det, bbox, crop_path, files, use_gpu, ocr_result, text, ocr_conf>>

(* ---------------------------- bounds ----------------------------------- *)
ImgW == 4
ImgH == 3
Scale == 2
MaxOff == 3
MaxConf == 1
MaxBoxes == 2
MaxLines == 1
MaxEntries == 2
MaxOcrConf == 1
MaxElapsed == 1

(* ---------------------------- values ----------------------------------- *)
NoneVal == "None"
Scripts == {"plate_detect", "plate_local"}
Devices == {"auto", "0", "cpu"}
CropPaths == {NoneVal, "crop.png"}
TextNames == <<"A", "B", "C", "D", "E", "F", "G", "H", "I", "J", "K", "L">>

(* Sequences over S of length 0..n *)
SeqUpTo(S, n) == UNION {[1..k -> S] : k \in 0..n}

(* Boxes the detector may return: the image frame with its top-left corner *)
(* moved by o1 and its bottom-right corner moved by o2 (1/Scale pixels),   *)
(* inward or outward, so coordinates below 0 and above W, H occur.         *)
Offsets == {-MaxOff, MaxOff}
XYXYs == {<<o1, o1, Scale * ImgW + o2, Scale * ImgH + o2>> : o1 \in Offsets, o2 \in Offsets}
Boxes == [xyxy : XYXYs, conf : 0..MaxConf]
BoxLists == SeqUpTo(Boxes, MaxBoxes)

(* What model.predict may return: an empty list, or a list whose first     *)
(* element has boxes = None or a (possibly empty) collection of boxes.     *)
PredictResults ==
    {<<>>} \cup {<<[has_boxes |-> FALSE, boxes |-> <<>>]>>}
           \cup {<<[has_boxes |-> TRUE, boxes |-> b]>> : b \in BoxLists}

(* What ocr.ocr may return: None, or a list of lines, each a list of       *)
(* (region, (text, conf)) entries.  The region is never read.  Every entry *)
(* carries a text of its own, so the entry a text came from is known.      *)
OcrConfLines == SeqUpTo(0..MaxOcrConf, MaxEntries)
OcrShapes == SeqUpTo(OcrConfLines, MaxLines)
OcrLinesOf(shape) ==
    [i \in 1..Len(shape) |->
        [j \in 1..Len(shape[i]) |->
            [text |-> TextNames[(i - 1) * MaxEntries + j], conf |-> shape[i][j]]]]
OcrResults ==
    {[null |-> TRUE, lines |-> <<>>]}
        \cup {[null |-> FALSE, lines |-> OcrLinesOf(sh)] : sh \in OcrShapes}

(* Which of the shapes of PredictResults a returned value has.             *)
ResultKind(r) ==
    IF Len(r) = 0 THEN "empty_list"
    ELSE IF ~r[1].has_boxes THEN "boxes_none"
    ELSE IF Len(r[1].boxes) = 0 THEN "zero_boxes"
    ELSE "boxes"

NoDet == [xyxy |-> <<0, 0, 0, 0>>, conf |-> 0]

(* ------------------------- exit statuses ------------------------------- *)
ExitImportError == 1
ExitImageNotFound == 2
ExitYoloLoadError == 3
ExitUncaught == 1
ExitOk == 0

(* ------------------------- pure functions ------------------------------ *)
(* np.argmax over boxes.conf: index of the first maximum (1-based here).   *)
RECURSIVE ArgMaxScan(_, _, _)
ArgMaxScan(boxes, i, best) ==
    IF i > Len(boxes) THEN best
    ELSE ArgMaxScan(boxes, i + 1,
                    IF boxes[i].conf > boxes[best].conf THEN i ELSE best)

(* Variant: ">=" in the scan, which keeps the last maximum.                *)
RECURSIVE ArgMaxScanLast(_, _, _)
ArgMaxScanLast(boxes, i, best) ==
    IF i > Len(boxes) THEN best
    ELSE ArgMaxScanLast(boxes, i + 1,
                        IF boxes[i].conf >= boxes[best].conf THEN i ELSE best)

ArgMax_LastMax(boxes) == ArgMaxScanLast(boxes, 2, 1)

ArgMax(boxes) == ArgMaxScan(boxes, 2, 1)

(* int(max(0, v)) for a coordinate v given in 1/Scale pixel.               *)
ClampCoord(v) == IF v < 0 THEN 0 ELSE v \div Scale

ClampBox(xyxy) == [k \in 1..4 |-> ClampCoord(xyxy[k])]

(* not results or results[0].boxes is None or len(results[0].boxes) == 0   *)
NoBoxes(res) ==
    IF Len(res) = 0 THEN TRUE
    ELSE IF ~res[1].has_boxes THEN TRUE
    ELSE Len(res[1].boxes) = 0

(* The two nested loops of ocr_plate: keep an entry only if its confidence *)
(* is strictly greater than the best so far, which starts at 0.0 / None.   *)
RECURSIVE ScanLine(_, _, _)
ScanLine(line, j, best) ==
    IF j > Len(line) THEN best
    ELSE ScanLine(line, j + 1,
                  IF line[j].conf > best.conf
                  THEN [text |-> line[j].text, conf |-> line[j].conf]
                  ELSE best)

RECURSIVE ScanLines(_, _, _)
ScanLines(lines, i, best) ==
    IF i > Len(lines) THEN best
    ELSE ScanLines(lines, i + 1, ScanLine(lines[i], 1, best))

ocr_plate(result) ==
    IF result.null \/ Len(result.lines) = 0
    THEN [text |-> NoneVal, conf |-> 0]
    ELSE ScanLines(result.lines, 1, [text |-> NoneVal, conf |-> 0])

(* ------------------------- printed records ----------------------------- *)
ImportErrorRecord(s) ==
    IF s = "plate_detect"
    THEN [detected |-> FALSE, error |-> "import_error: exc"]
    ELSE [plate |-> NoneVal, error |-> "import_error: exc"]

(* Variant: the reader script prints the detector script's record.         *)
ImageNotFoundRecord_Detector(s) ==
    [detected |-> FALSE, error |-> "image_not_found"]

ImageNotFoundRecord(s) ==
    IF s = "plate_detect"
    THEN [detected |-> FALSE, error |-> "image_not_found"]
    ELSE [plate |-> NoneVal, error |-> "image_not_found"]

YoloLoadErrorRecord(s) ==
    IF s = "plate_detect"
    THEN [detected |-> FALSE, error |-> "yolo_load_error: exc"]
    ELSE [plate |-> NoneVal, error |-> "yolo_load_error: exc"]

(* Variant: the reader script reports elapsed_ms as the detector does.     *)
NoDetectionRecord_Elapsed(s, elapsed_ms) ==
    IF s = "plate_detect"
    THEN [detected |-> FALSE, confidence |-> 0, elapsed_ms |-> elapsed_ms]
    ELSE [plate |-> NoneVal, confidence |-> 0, elapsed_ms |-> elapsed_ms]

NoDetectionRecord(s, elapsed_ms) ==
    IF s = "plate_detect"
    THEN [detected |-> FALSE, confidence |-> 0, elapsed_ms |-> elapsed_ms]
    ELSE [plate |-> NoneVal, confidence |-> 0]

(* Variant: crop_path is put in the record without the "if crop_path".     *)
DetectResult_AlwaysCropPath(conf, box, elapsed_ms, cp) ==
    [detected |-> TRUE, confidence |-> conf, bbox |-> box,
     elapsed_ms |-> elapsed_ms, crop_path |-> cp]

DetectResult(conf, box, elapsed_ms, cp) ==
    IF cp # NoneVal
    THEN [detected |-> TRUE, confidence |-> conf, bbox |-> box,
          elapsed_ms |-> elapsed_ms, crop_path |-> cp]
    ELSE [detected |-> TRUE, confidence |-> conf, bbox |-> box,
          elapsed_ms |-> elapsed_ms]

LocalResult(t, conf, oconf, box, elapsed_ms) ==
    [plate |-> t, confidence |-> conf, ocr_confidence |-> oconf,
     bbox |-> box, elapsed_ms |-> elapsed_ms]

(* ------------------------------ state ---------------------------------- *)
Init ==
    /\ script \in Scripts
    /\ args \in {a \in [device : Devices, output_crop : CropPaths] :
                    script = "plate_local" => a.output_crop = NoneVal}
    /\ pc = "import"
    /\ stdout = <<>>
    /\ stderr = <<>>
    /\ exitCode = ExitOk
    /\ trace = <<>>
    /\ failedStage = NoneVal
    /\ path_exists = "unchecked"
    /\ capability = "unchecked"
    /\ device = NoneVal
    /\ predict_device = NoneVal
    /\ results = <<>>
    /\ result_kind = "unset"
    /\ det = NoDet
    /\ bbox = <<0, 0, 0, 0>>
    /\ crop_path = NoneVal
    /\ files = <<>>
    /\ use_gpu = FALSE
    /\ ocr_result = [null |-> TRUE, lines |-> <<>>]
    /\ text = NoneVal
    /\ ocr_conf = 0

inputs == <<script, args>>
detection == <<results, result_kind, det, bbox>>
reading == <<use_gpu, ocr_result, text, ocr_conf>>

(* print(json.dumps(rec)); sys.exit(code)  -- or return, with status 0     *)
PrintAndExit(rec, code) ==
    /\ stdout' = Append(stdout, rec)
    /\ exitCode' = code
    /\ pc' = "done"
    /\ UNCHANGED stderr

(* An exception no handler catches: traceback on stderr, status 1.         *)
Uncaught(stage) ==
    /\ stderr' = Append(stderr, "Traceback")
    /\ exitCode' = ExitUncaught
    /\ failedStage' = stage
    /\ pc' = "done"
    /\ UNCHANGED stdout

(* ---- module top level: imports ---------------------------------------- *)
ImportOk ==
    /\ pc = "import"
    /\ pc' = "exists"
    /\ trace' = Append(trace, "import")
    /\ UNCHANGED <<inputs, stdout, stderr, exitCode, failedStage, path_exists,
                   capability, device, predict_device, detection, crop_path,
                   files, reading>>

(* ultralytics / paddleocr / torch fail to import inside the try block     *)
ImportError ==
    /\ pc = "import"
    /\ trace' = Append(trace, "import")
    /\ failedStage' = "import"
    /\ PrintAndExit(ImportErrorRecord(script), ExitImportError)
    /\ UNCHANGED <<inputs, path_exists, capability, device, predict_device,
                   detection, crop_path, files, reading>>

(* numpy / PIL fail to import: these imports stand outside the try block   *)
ImportUncaught ==
    /\ pc = "import"
    /\ trace' = Append(trace, "import")
    /\ Uncaught("import")
    /\ UNCHANGED <<inputs, path_exists, capability, device, predict_device,
                   detection, crop_path, files, reading>>

(* ---- main: os.path.exists(args.image) --------------------------------- *)
ImageNotFound ==
    /\ pc = "exists"
    /\ path_exists' = "no"
    /\ trace' = Append(trace, "exists")
    /\ failedStage' = "exists"
    /\ PrintAndExit(ImageNotFoundRecord(script), ExitImageNotFound)
    /\ UNCHANGED <<inputs, capability, device, predict_device, detection,
                   crop_path, files, reading>>

ImageFound ==
    /\ pc = "exists"
    /\ path_exists' = "yes"
    /\ trace' = Append(trace, "exists")
    /\ pc' = "open"
    /\ UNCHANGED <<inputs, stdout, stderr, exitCode, failedStage, capability,
                   device, predict_device, detection, crop_path, files, reading>>

(* ---- main: Image.open(...).convert("RGB"); np.array(image) ------------ *)
OpenImage ==
    /\ pc = "open"
    /\ trace' = Append(trace, "open")
    /\ pc' = "device"
    /\ UNCHANGED <<inputs, stdout, stderr, exitCode, failedStage, path_exists,
                   capability, device, predict_device, detection, crop_path,
                   files, reading>>

OpenImageRaises ==
    /\ pc = "open"
    /\ trace' = Append(trace, "open")
    /\ Uncaught("open")
    /\ UNCHANGED <<inputs, path_exists, capability, device, predict_device,
                   detection, crop_path, files, reading>>

(* ---- main: device resolution ------------------------------------------ *)
DeviceGiven ==
    /\ pc = "device"
    /\ args.device # "auto"
    /\ device' = args.device
    /\ pc' = "load"
    /\ UNCHANGED <<inputs, stdout, stderr, exitCode, trace, failedStage,
                   path_exists, capability, predict_device, detection,
                   crop_path, files, reading>>

(* torch.cuda.is_available() answers *)
DeviceAuto ==
    /\ pc = "device"
    /\ args.device = "auto"
    /\ \E c \in {"yes", "no"} :
          /\ capability' = c
          /\ device' = IF c = "yes" THEN "0" ELSE "cpu"
    /\ trace' = Append(trace, "cuda")
    /\ pc' = "load"
    /\ UNCHANGED <<inputs, stdout, stderr, exitCode, failedStage, path_exists,
                   predict_device, detection, crop_path, files, reading>>

(* plate_detect: import torch / is_available() raises inside try/except    *)
DeviceAutoFallback ==
    /\ pc = "device"
    /\ args.device = "auto"
    /\ script = "plate_detect"
    /\ capability' = "raise"
    /\ device' = "cpu"
    /\ trace' = Append(trace, "cuda")
    /\ pc' = "load"
    /\ UNCHANGED <<inputs, stdout, stderr, exitCode, failedStage, path_exists,
                   predict_device, detection, crop_path, files, reading>>

(* plate_local: is_available() raises and nothing catches it               *)
DeviceAutoRaises ==
    /\ pc = "device"
    /\ args.device = "auto"
    /\ script = "plate_local"
    /\ capability' = "raise"
    /\ device' = "auto"
    /\ trace' = Append(trace, "cuda")
    /\ Uncaught("cuda")
    /\ UNCHANGED <<inputs, path_exists, predict_device, detection, crop_path,
                   files, reading>>

(* ---- main: YOLO(args.yolo_model) -------------------------------------- *)
LoadModel ==
    /\ pc = "load"
    /\ trace' = Append(trace, "YOLO")
    /\ pc' = "predict"
    /\ UNCHANGED <<inputs, stdout, stderr, exitCode, failedStage, path_exists,
                   capability, device, predict_device, detection, crop_path,
                   files, reading>>

YoloLoadError ==
    /\ pc = "load"
    /\ trace' = Append(trace, "YOLO")
    /\ failedStage' = "YOLO"
    /\ PrintAndExit(YoloLoadErrorRecord(script), ExitYoloLoadError)
    /\ UNCHANGED <<inputs, path_exists, capability, device, predict_device,
                   detection, crop_path, files, reading>>

(* ---- model.predict(source=image_np, conf=..., device=device) ---------- *)
Predict ==
    /\ pc = "predict"
    /\ \E r \in PredictResults :
          /\ results' = r
          /\ result_kind' = ResultKind(r)
    /\ predict_device' = device
    /\ trace' = Append(trace, "predict")
    /\ pc' = "select"
    /\ UNCHANGED <<inputs, stdout, stderr, exitCode, failedStage, path_exists,
                   capability, device, det, bbox, crop_path, files, reading>>

PredictRaises ==
    /\ pc = "predict"
    /\ predict_device' = device
    /\ trace' = Append(trace, "predict")
    /\ Uncaught("predict")
    /\ UNCHANGED <<inputs, path_exists, capability, device, detection,
                   crop_path, files, reading>>

(* ---- no box: print the negative result and return --------------------- *)
NoDetection ==
    /\ pc = "select"
    /\ NoBoxes(results)
    /\ \E e \in 0..MaxElapsed :
          PrintAndExit(NoDetectionRecord(script, e), ExitOk)
    /\ UNCHANGED <<inputs, trace, failedStage, path_exists, capability, device,
                   predict_device, detection, crop_path, files, reading>>

(* ---- best box: argmax over confidences, then the clamp ---------------- *)
SelectBest ==
    /\ pc = "select"
    /\ ~NoBoxes(results)
    /\ det' = results[1].boxes[ArgMax(results[1].boxes)]
    /\ bbox' = ClampBox(det'.xyxy)
    /\ pc' = IF script = "plate_detect" /\ args.output_crop = NoneVal
             THEN "print" ELSE "crop"
    /\ UNCHANGED <<inputs, stdout, stderr, exitCode, trace, failedStage,
                   path_exists, capability, device, predict_device, results,
                   result_kind, crop_path, files, reading>>

(* ---- plate_detect: image.crop(...); plate_img.save(args.output_crop) -- *)
CropSave ==
    /\ pc = "crop"
    /\ script = "plate_detect"
    /\ trace' = trace \o <<"crop", "save">>
    /\ files' = Append(files, args.output_crop)
    /\ crop_path' = args.output_crop
    /\ pc' = "print"
    /\ UNCHANGED <<inputs, stdout, stderr, exitCode, failedStage, path_exists,
                   capability, device, predict_device, detection, reading>>

SaveRaises ==
    /\ pc = "crop"
    /\ script = "plate_detect"
    /\ trace' = trace \o <<"crop", "save">>
    /\ Uncaught("save")
    /\ UNCHANGED <<inputs, path_exists, capability, device, predict_device,
                   detection, crop_path, files, reading>>

(* ---- plate_local: plate_img = image.crop(...) ------------------------- *)
(* results was local to detect_plate and is gone once main holds det.      *)
CropLocal ==
    /\ pc = "crop"
    /\ script = "plate_local"
    /\ trace' = Append(trace, "crop")
    /\ results' = <<>>
    /\ pc' = "ocr_init"
    /\ UNCHANGED <<inputs, stdout, stderr, exitCode, failedStage, path_exists,
                   capability, device, predict_device, result_kind, det, bbox,
                   crop_path, files, reading>>

CropRaises ==
    /\ pc = "crop"
    /\ trace' = Append(trace, "crop")
    /\ Uncaught("crop")
    /\ UNCHANGED <<inputs, path_exists, capability, device, predict_device,
                   detection, crop_path, files, reading>>

(* ---- plate_local: PaddleOCR(lang=..., use_gpu=use_gpu) ---------------- *)
OcrInit ==
    /\ pc = "ocr_init"
    /\ use_gpu' = (device \notin {"cpu", "-1"})
    /\ trace' = Append(trace, "PaddleOCR")
    /\ pc' = "ocr"
    /\ UNCHANGED <<inputs, stdout, stderr, exitCode, failedStage, path_exists,
                   capability, device, predict_device, detection, crop_path,
                   files, ocr_result, text, ocr_conf>>

OcrInitRaises ==
    /\ pc = "ocr_init"
    /\ use_gpu' = (device \notin {"cpu", "-1"})
    /\ trace' = Append(trace, "PaddleOCR")
    /\ Uncaught("PaddleOCR")
    /\ UNCHANGED <<inputs, path_exists, capability, device, predict_device,
                   detection, crop_path, files, ocr_result, text, ocr_conf>>

(* ---- plate_local: text, ocr_conf = ocr_plate(ocr, np.array(plate_img)) - *)
OcrPlate ==
    /\ pc = "ocr"
    /\ \E r \in OcrResults :
          /\ ocr_result' = r
          /\ text' = ocr_plate(r).text
          /\ ocr_conf' = ocr_plate(r).conf
    /\ trace' = Append(trace, "ocr")
    /\ pc' = "print"
    /\ UNCHANGED <<inputs, stdout, stderr, exitCode, failedStage, path_exists,
                   capability, device, predict_device, detection, crop_path,
                   files, use_gpu>>

OcrRaises ==
    /\ pc = "ocr"
    /\ trace' = Append(trace, "ocr")
    /\ Uncaught("ocr")
    /\ UNCHANGED <<inputs, path_exists, capability, device, predict_device,
                   detection, crop_path, files, reading>>

(* ---- the final print(json.dumps(result)) ------------------------------ *)
PrintDetect ==
    /\ pc = "print"
    /\ script = "plate_detect"
    /\ \E e \in 0..MaxElapsed :
          PrintAndExit(DetectResult(det.conf, bbox, e, crop_path), ExitOk)
    /\ UNCHANGED <<inputs, trace, failedStage, path_exists, capability, device,
                   predict_device, detection, crop_path, files, reading>>

PrintLocal ==
    /\ pc = "print"
    /\ script = "plate_local"
    /\ \E e \in 0..MaxElapsed :
          PrintAndExit(LocalResult(text, det.conf, ocr_conf, bbox, e), ExitOk)
    /\ UNCHANGED <<inputs, trace, failedStage, path_exists, capability, device,
                   predict_device, detection, crop_path, files, reading>>

Next ==
    \/ ImportOk \/ ImportError \/ ImportUncaught
    \/ ImageNotFound \/ ImageFound
    \/ OpenImage \/ OpenImageRaises
    \/ DeviceGiven \/ DeviceAuto \/ DeviceAutoFallback \/ DeviceAutoRaises
    \/ LoadModel \/ YoloLoadError
    \/ Predict \/ PredictRaises
    \/ NoDetection \/ SelectBest
    \/ CropSave \/ SaveRaises \/ CropLocal \/ CropRaises
    \/ OcrInit \/ OcrInitRaises \/ OcrPlate \/ OcrRaises
    \/ PrintDetect \/ PrintLocal

Spec == Init /\ [][Next]_vars

(* ======================================================================= *)
(* Properties                                                              *)
(* ======================================================================= *)
Done == pc = "done"
HasKey(rec, k) == k \in DOMAIN rec
Called(c) == \E i \in 1..Len(trace) : trace[i] = c
Calls(c) == Cardinality({i \in 1..Len(trace) : trace[i] = c})
Before(a, b) ==
    \A i \in 1..Len(trace), j \in 1..Len(trace) :
        (trace[i] = a /\ trace[j] = b) => i < j
NoBoxKinds == {"empty_list", "boxes_none", "zero_boxes"}

(* C1: every run ends having written exactly one JSON object to stdout,    *)
(* whichever stage succeeds or fails; never zero, never two or more.       *)
C1_ExactlyOneJson ==
    /\ Len(stdout) <= 1
    /\ Done => Len(stdout) = 1

(* C2: a failure of any stage (image load, device resolution, model load,  *)
(* detect, crop, text recognition) ends the run at once with one printed   *)
(* record that has an error key and a non-zero exit code; no later stage   *)
(* runs after the failing one.                                             *)
C2_FailureShortCircuits ==
    (Done /\ (failedStage \notin {NoneVal, "import"} \/ capability = "raise")) =>
        /\ Len(stdout) = 1
        /\ HasKey(stdout[1], "error")
        /\ exitCode # 0
        /\ trace[Len(trace)] = (IF capability = "raise" THEN "cuda" ELSE failedStage)

(* C3: when the image path does not exist the run exits with code 2, its   *)
(* only output is the image_not_found record of the script, and neither    *)
(* the detection model nor the OCR model was constructed or invoked,       *)
(* whatever the other flags are.                                           *)
C3_ImageNotFound ==
    path_exists = "no" =>
        /\ Done
        /\ exitCode = 2
        /\ stderr = <<>>
        /\ stdout = <<IF script = "plate_detect"
                      THEN [detected |-> FALSE, error |-> "image_not_found"]
                      ELSE [plate |-> NoneVal, error |-> "image_not_found"]>>
        /\ ~Called("cuda") /\ ~Called("YOLO") /\ ~Called("predict")
        /\ ~Called("PaddleOCR") /\ ~Called("ocr")
        /\ files = <<>>

C3_Witness ==
    /\ Done /\ path_exists = "no" /\ exitCode = 2
    /\ script = "plate_local" /\ args.device = "auto"

(* C4: exit code 0 when the run completes with a result, 1 when a          *)
(* dependency import fails, 2 when the image path does not exist, 3 when   *)
(* the detection model fails to load; a run that exits 0 prints a record   *)
(* without an error key, a run that exits 1, 2 or 3 prints a record with   *)
(* an error key.                                                           *)
C4_ExitCodeScheme ==
    Done =>
        /\ (failedStage = NoneVal) => exitCode = 0
        /\ (failedStage = "import") => exitCode = 1
        /\ (path_exists = "no") => exitCode = 2
        /\ (failedStage = "YOLO") => exitCode = 3
        /\ (exitCode = 0) => (Len(stdout) = 1 /\ ~HasKey(stdout[1], "error"))
        /\ (exitCode \in {1, 2, 3}) => (Len(stdout) = 1 /\ HasKey(stdout[1], "error"))

(* C5: every coordinate of a printed bbox is non-negative and within the   *)
(* image: 0 <= x1, x2 <= W and 0 <= y1, y2 <= H, for any box the model     *)
(* returns.                                                                *)
C5_BboxWithinImage ==
    \A i \in 1..Len(stdout) :
        HasKey(stdout[i], "bbox") =>
            LET b == stdout[i].bbox IN
            /\ 0 <= b[1] /\ b[1] <= ImgW
            /\ 0 <= b[3] /\ b[3] <= ImgW
            /\ 0 <= b[2] /\ b[2] <= ImgH
            /\ 0 <= b[4] /\ b[4] <= ImgH

(* C6: in the reader script, when detection yields no box (empty result    *)
(* list, boxes None, zero boxes) the output is exactly                     *)
(* {"plate": null, "confidence": 0.0}, the exit code is 0, and the OCR     *)
(* constructor and the recognition call are never invoked; the OCR stage   *)
(* is invoked only in runs where a detection exists.                       *)
C6_NoDetectionNoOcr ==
    script = "plate_local" =>
        /\ (result_kind \in NoBoxKinds) =>
              /\ ~Called("PaddleOCR") /\ ~Called("ocr") /\ ~Called("crop")
              /\ pc \in {"select", "done"}
              /\ Done => /\ stdout = <<[plate |-> NoneVal, confidence |-> 0]>>
                         /\ exitCode = 0
                         /\ stderr = <<>>
        /\ (Called("PaddleOCR") \/ Called("ocr")) => result_kind = "boxes"

C6_Witness ==
    /\ script = "plate_local" /\ Done
    /\ result_kind = "zero_boxes"
    /\ results = <<[has_boxes |-> TRUE, boxes |-> <<>>]>>
    /\ Len(stdout) = 1

(* C7: when the model returns one or more boxes, the confidence and bbox   *)
(* a script reports belong to one and the same returned box, whose         *)
(* confidence is the maximum; among several boxes with the maximum, the    *)
(* earliest in the model's order is kept.                                  *)
FirstMaxBox(boxes, i) ==
    /\ \A j \in 1..Len(boxes) : boxes[j].conf <= boxes[i].conf
    /\ \A j \in 1..(i - 1) : boxes[j].conf < boxes[i].conf

C7_BestBoxKept ==
    /\ (result_kind = "boxes" /\ Len(results) > 0 /\ pc \in {"crop", "print", "done"}
            /\ failedStage \in {NoneVal, "crop", "save"}) =>
          \E i \in 1..Len(results[1].boxes) :
              /\ FirstMaxBox(results[1].boxes, i)
              /\ det.conf = results[1].boxes[i].conf
              /\ det.xyxy = results[1].boxes[i].xyxy
    /\ \A k \in 1..Len(stdout) :
          HasKey(stdout[k], "bbox") =>
              /\ stdout[k].confidence = det.conf
              /\ stdout[k].bbox = [c \in 1..4 |->
                                      IF det.xyxy[c] < 0 THEN 0
                                      ELSE det.xyxy[c] \div Scale]

C7_Witness ==
    /\ script = "plate_detect" /\ Done /\ exitCode = 0
    /\ result_kind = "boxes"
    /\ Len(results[1].boxes) = 2
    /\ results[1].boxes[1].conf = results[1].boxes[2].conf
    /\ results[1].boxes[1].xyxy # results[1].boxes[2].xyxy
    /\ Len(stdout) = 1 /\ HasKey(stdout[1], "bbox")

(* C8: ocr_plate returns the text and confidence of the maximum-confidence *)
(* entry over all entries of all lines, and returns an absent text with    *)
(* confidence 0.0 only when the OCR result is empty or null: for every     *)
(* non-empty result, also one whose entries all have confidence 0.0, the   *)
(* returned text is the text of one of the entries.  (A result without any *)
(* entry counts as empty here.)                                            *)
OcrEntriesOf(r) ==
    UNION {{r.lines[i][j] : j \in 1..Len(r.lines[i])} : i \in 1..Len(r.lines)}

C8_OcrPlateBest ==
    (script = "plate_local" /\ Called("ocr") /\ failedStage # "ocr") =>
        IF OcrEntriesOf(ocr_result) = {}
        THEN text = NoneVal /\ ocr_conf = 0
        ELSE /\ text # NoneVal
             /\ \E e \in OcrEntriesOf(ocr_result) :
                   /\ e.text = text
                   /\ e.conf = ocr_conf
                   /\ \A f \in OcrEntriesOf(ocr_result) : f.conf <= e.conf

(* C9: with --device auto, both scripts resolve the device exactly once,   *)
(* before the detection model is loaded, to "0" if the capability check    *)
(* reports an accelerator and to "cpu" otherwise; if the check itself      *)
(* raises, the run continues with "cpu" and that failure gives no error    *)
(* output and no non-zero exit code.  Any other device value reaches the   *)
(* detector unchanged.                                                     *)
C9_DeviceResolution ==
    /\ Calls("cuda") <= 1
    /\ Before("cuda", "YOLO")
    /\ Called("cuda") <=> (args.device = "auto" /\ pc \notin {"import", "exists", "open", "device"}
                              /\ failedStage \notin {"import", "exists", "open"})
    /\ (capability = "yes") => device = "0"
    /\ (capability = "no") => device = "cpu"
    /\ (capability = "raise") =>
          /\ device = "cpu"
          /\ failedStage # "cuda"
          /\ (Done /\ failedStage = NoneVal) => (exitCode = 0 /\ stderr = <<>>)
          /\ (pc = "load") => (exitCode = 0 /\ stderr = <<>> /\ stdout = <<>>)
    /\ (args.device # "auto" /\ Called("predict")) => predict_device = args.device
    /\ (args.device = "auto" /\ Called("predict")) => predict_device = device

====
